---------------------------- MODULE Spec2Model ----------------------------
(***************************************************************************)
(* A model of the collection engine of mesos_exporter (master_state.go and *)
(* the common collector code that follows it in the same source file):     *)
(* the HTTP client with its token cache, the range codec, the JSON decode  *)
(* of the /state, /metrics/snapshot and /version payloads, the collectors  *)
(* and the settable counters.                                              *)
(*                                                                         *)
(* Go strings that the code inspects character by character (label names,  *)
(* attribute keys and values, range texts) are sequences of one-character  *)
(* strings.  Opaque strings (pids, tokens) are TLA+ strings.               *)
(***************************************************************************)
EXTENDS Integers, Sequences, FiniteSets, TLC

VARIABLES
    cfg,          \* the configuration the collectors were constructed with
    clock,        \* time.Now().Unix(), in model time units
    auth,         \* httpClient.auth: [token, tokenExpire]
    errorCounter, \* the process-wide errorCounter
    values,       \* settableCounterVec.values of the attributes counter
    ctrValue,     \* settableCounter.value (Nil before any Set)
    gauges,       \* the twelve slave GaugeVecs: name -> (label values -> value)
    verMetric,    \* versionCollector.metric: label values -> value
    mcMetrics,    \* the collectors of metricCollector.metrics: key -> value or Nil
    calls,        \* number of operations performed so far (bounds the run)
    ghost,        \* the Set calls since the previous Collect of each counter
    rng,          \* a ranges value and the last operation of the codec on it
    grp,          \* the Describe and Collect calls of the grouped collector
    procs,        \* the concurrent Collect calls on one masterCollector
    last          \* what the last operation did and emitted (observation)

vars == <<cfg, clock, auth, errorCounter, values, ctrValue, gauges, verMetric,
          mcMetrics, calls, ghost, rng, grp, procs, last>>

-----------------------------------------------------------------------------
(* Bounds of the model.                                                    *)

MaxCalls == 2
MaxBuf == 3
MaxNodes == 2
MaxTime == 6
MaxDecodes == 2
MaxScrapes == 2
MaxProcs == 2

\* time.Hour (line 506) in model time units: one unit is twenty minutes.
Hour == 3

Nil == "nil"

-----------------------------------------------------------------------------
(* Characters and generic sequence helpers.                                *)

Lower == {"a","b","c","d","e","f","g","h","i","j","k","l","m","n","o","p","q",
          "r","s","t","u","v","w","x","y","z"}
Upper == {"A","B","C","D","E","F","G","H","I","J","K","L","M","N","O","P","Q",
          "R","S","T","U","V","W","X","Y","Z"}
Digit == {"0","1","2","3","4","5","6","7","8","9"}
Quote == "\""

RECURSIVE TrimLeft(_, _)
TrimLeft(s, cut) ==
    IF s # <<>> /\ Head(s) \in cut THEN TrimLeft(Tail(s), cut) ELSE s

RECURSIVE TrimRight(_, _)
TrimRight(s, cut) ==
    IF s # <<>> /\ s[Len(s)] \in cut
    THEN TrimRight(SubSeq(s, 1, Len(s) - 1), cut) ELSE s

\* bytes.Trim / strings.Trim: drop all leading and trailing characters of cut.
Trim(s, cut) == TrimRight(TrimLeft(s, cut), cut)

\* The permutations of a finite set, as sequences: the orders in which a Go
\* map with these keys may be iterated.
RECURSIVE Orders(_)
Orders(S) ==
    IF S = {} THEN {<<>>}
    ELSE UNION {{<<x>> \o o : o \in Orders(S \ {x})} : x \in S}

-----------------------------------------------------------------------------
(* Label and attribute helpers (lines 638-684).                            *)

LabelStart == Lower \cup Upper \cup {"_"}
LabelChar == Lower \cup Upper \cup Digit \cup {"_"}

\* invalidLabelNameCharRE.ReplaceAllString(label, "_"): a first character
\* outside [a-zA-Z_] and any character outside [a-zA-Z0-9_] become "_".
normaliseLabel(label) ==
    [i \in 1..Len(label) |->
        IF i = 1 /\ label[i] \notin LabelStart THEN "_"
        ELSE IF label[i] \notin LabelChar THEN "_"
        ELSE label[i]]

RECURSIVE normaliseLabelList(_)
normaliseLabelList(labelList) ==
    IF labelList = <<>> THEN <<>>
    ELSE <<normaliseLabel(Head(labelList))>> \o normaliseLabelList(Tail(labelList))

stringInSlice(str, slice) == \E i \in 1..Len(slice) : slice[i] = str

\* The label values taken in the reverse of the order of the keys.
getLabelValuesReversed(labels, orderedLabelKeys) ==
    [i \in 1..Len(orderedLabelKeys) |->
        LET key == orderedLabelKeys[Len(orderedLabelKeys) + 1 - i]
        IN  IF key \in DOMAIN labels THEN labels[key] ELSE <<>>]

\* labels is a Go map (a function on the label names it holds); a missing
\* key reads as the empty string.
getLabelValuesFromMap(labels, orderedLabelKeys) ==
    [i \in 1..Len(orderedLabelKeys) |->
        IF orderedLabelKeys[i] \in DOMAIN labels
        THEN labels[orderedLabelKeys[i]] ELSE <<>>]

\* The character class of the regexp text: ^[-[:word:]/.]*$
TextChar == LabelChar \cup {"-", "/", "."}

\* The value is matched against the regexp with its wrapping quotes on.
attributeStringUntrimmed(attribute) ==
    IF \A i \in 1..Len(attribute) : attribute[i] \in TextChar
    THEN [val |-> attribute, err |-> FALSE]
    ELSE [val |-> <<>>, err |-> TRUE]

\* attributeString: strip the wrapping quotes, keep the value when it is
\* text; err is TRUE for errDropAttribute.
attributeString(attribute) ==
    LET value == Trim(attribute, {Quote})
    IN  IF \A i \in 1..Len(value) : value[i] \in TextChar
        THEN [val |-> value, err |-> FALSE]
        ELSE [val |-> <<>>, err |-> TRUE]

-----------------------------------------------------------------------------
(* The range codec (lines 218-254).                                        *)

\* bytes.Split(data, sep) for a one-character separator.
RECURSIVE Split(_, _)
Split(s, sep) ==
    IF \E i \in 1..Len(s) : s[i] = sep
    THEN LET i == CHOOSE k \in 1..Len(s) :
                      s[k] = sep /\ \A j \in 1..(k - 1) : s[j] # sep
         IN  <<SubSeq(s, 1, i - 1)>> \o Split(SubSeq(s, i + 1, Len(s)), sep)
    ELSE <<s>>

\* bytes.SplitN(s, sep, 2): cut at the first separator only.
SplitN2(s, sep) ==
    IF \E i \in 1..Len(s) : s[i] = sep
    THEN LET i == CHOOSE k \in 1..Len(s) :
                      s[k] = sep /\ \A j \in 1..(k - 1) : s[j] # sep
         IN  <<SubSeq(s, 1, i - 1), SubSeq(s, i + 1, Len(s))>>
    ELSE <<s>>

DigitVal(c) ==
    CASE c = "0" -> 0 [] c = "1" -> 1 [] c = "2" -> 2 [] c = "3" -> 3
      [] c = "4" -> 4 [] c = "5" -> 5 [] c = "6" -> 6 [] c = "7" -> 7
      [] c = "8" -> 8 [] c = "9" -> 9

\* A uint64 is four 16-bit limbs, the least significant first, so that the
\* arithmetic of the code keeps its width of 64 bits.
Base == 65536

ZeroU64 == <<0, 0, 0, 0>>
OneU64 == <<1, 0, 0, 0>>
MaxU64 == <<Base - 1, Base - 1, Base - 1, Base - 1>>

\* The uint64 of a small natural number.
U64(n) == <<n % Base, n \div Base, 0, 0>>

\* a + b in uint64 (Go wraps silently); carry is what left the top limb.
AddU64(a, b) ==
    LET s1 == a[1] + b[1]
        s2 == a[2] + b[2] + (s1 \div Base)
        s3 == a[3] + b[3] + (s2 \div Base)
        s4 == a[4] + b[4] + (s3 \div Base)
    IN  [val |-> <<s1 % Base, s2 % Base, s3 % Base, s4 % Base>>,
         carry |-> s4 \div Base]

\* A subtraction that gives 0 instead of wrapping when a < b.
SubSaturatingU64(a, b) ==
    LET d1 == a[1] - b[1]
        d2 == a[2] - b[2] - (IF d1 < 0 THEN 1 ELSE 0)
        d3 == a[3] - b[3] - (IF d2 < 0 THEN 1 ELSE 0)
        d4 == a[4] - b[4] - (IF d3 < 0 THEN 1 ELSE 0)
    IN  IF d4 < 0 THEN ZeroU64 ELSE <<d1 % Base, d2 % Base, d3 % Base, d4 % Base>>

\* a - b in uint64 (Go wraps silently).
SubU64(a, b) ==
    LET d1 == a[1] - b[1]
        d2 == a[2] - b[2] - (IF d1 < 0 THEN 1 ELSE 0)
        d3 == a[3] - b[3] - (IF d2 < 0 THEN 1 ELSE 0)
        d4 == a[4] - b[4] - (IF d3 < 0 THEN 1 ELSE 0)
    IN  <<d1 % Base, d2 % Base, d3 % Base, d4 % Base>>

\* k * a + d for k and d up to 10000, with what left the top limb.
MulAddU64(a, k, d) ==
    LET s1 == k * a[1] + d
        s2 == k * a[2] + (s1 \div Base)
        s3 == k * a[3] + (s2 \div Base)
        s4 == k * a[4] + (s3 \div Base)
    IN  [val |-> <<s1 % Base, s2 % Base, s3 % Base, s4 % Base>>,
         carry |-> s4 \div Base]

\* float64(u) as a number of the model.  The payloads of the collectors carry
\* port numbers far below 2^31, where the conversion is exact.
Float64(u) == u[1] + Base * (u[2] + Base * (u[3] + Base * u[4]))

\* The number written by at most four digits.
RECURSIVE SmallDecimal(_)
SmallDecimal(s) ==
    IF s = <<>> THEN 0
    ELSE 10 * SmallDecimal(SubSeq(s, 1, Len(s) - 1)) + DigitVal(s[Len(s)])

\* The digits of s read as a decimal number, four digits at a time; range is
\* TRUE when the value does not fit 64 bits.
RECURSIVE DecimalValue(_)
DecimalValue(s) ==
    IF Len(s) <= 4 THEN [val |-> U64(SmallDecimal(s)), range |-> FALSE]
    ELSE LET p == DecimalValue(SubSeq(s, 1, Len(s) - 4))
             m == MulAddU64(p.val, 10000,
                            SmallDecimal(SubSeq(s, Len(s) - 3, Len(s))))
         IN  [val |-> m.val, range |-> p.range \/ m.carry # 0]

\* What ParseUint returns for the decimal value v of its digits: the value,
\* or the largest uint64 and a range error.
UintOf(v) ==
    IF v.range THEN [val |-> MaxU64, err |-> TRUE]
    ELSE [val |-> v.val, err |-> FALSE]

\* strconv.ParseUint(string(bytes.TrimSpace(b)), 10, 64): a syntax error for
\* an empty text or a character that is no digit, a range error for a value
\* of more than 64 bits.
ParseUint(b) ==
    LET t == Trim(b, {" "})
    IN  IF t # <<>> /\ \A i \in 1..Len(t) : t[i] \in Digit
        THEN UintOf(DecimalValue(t))
        ELSE [val |-> ZeroU64, err |-> TRUE]

\* The loop of UnmarshalJSON over the comma-separated segments: rs is the
\* slice so far.  An error leaves the intervals appended before it in rs.
RECURSIVE UnmarshalSegments(_, _)

\* The end of one turn of the loop, lo and hi being what ParseUint returned
\* for the two bounds: an error returns, otherwise the interval is appended
\* and the loop goes on with the segments left.
AppendRange(rs, lo, hi, rest) ==
    IF lo.err \/ hi.err THEN [rs |-> rs, err |-> TRUE]
    ELSE UnmarshalSegments(Append(rs, <<lo.val, hi.val>>), rest)

UnmarshalSegments(rs, segs) ==
    IF segs = <<>> THEN [rs |-> rs, err |-> FALSE]
    ELSE LET ps == SplitN2(Head(segs), "-")
         IN  IF Len(ps) # 2 THEN [rs |-> rs, err |-> TRUE]
             ELSE AppendRange(rs, ParseUint(ps[1]), ParseUint(ps[2]), Tail(segs))

\* ranges.UnmarshalJSON(data) on the receiver rs.
UnmarshalJSON(rs, data) ==
    LET d == Trim(data, {"[", "]", Quote})
    IN  IF d = <<>> THEN [rs |-> rs, err |-> FALSE]
        ELSE UnmarshalSegments(rs, Split(d, ","))

\* A size() that leaves out the 1 of each interval.
RECURSIVE sizeExclusive(_)
sizeExclusive(rs) ==
    IF rs = <<>> THEN ZeroU64
    ELSE AddU64(sizeExclusive(SubSeq(rs, 1, Len(rs) - 1)),
                SubU64(rs[Len(rs)][2], rs[Len(rs)][1])).val

\* ranges.size(): sz += 1 + (rs[i][1] - rs[i][0]) for each interval, in
\* uint64.
RECURSIVE size(_)
size(rs) ==
    IF rs = <<>> THEN ZeroU64
    ELSE LET r == rs[Len(rs)]
             one == AddU64(OneU64, SubU64(r[2], r[1])).val
         IN  AddU64(size(SubSeq(rs, 1, Len(rs) - 1)), one).val

-----------------------------------------------------------------------------
(* The settable counters (lines 354-396).                                  *)

\* The label names of the attributes counter's descriptor (lines 42, 170-171).
Labels == << <<"s","l","a","v","e">>, <<"h","o","s","t","n","a","m","e">>,
             <<"p","o","r","t">>, <<"i","d">> >>

slaveAttributesLabelsExport(labelList) == Labels \o normaliseLabelList(labelList)

\* prometheus.MustNewConstMetric(desc, CounterValue, value, labelValues...):
\* panics unless there is one label value per label name of the descriptor.
ConstMetricOK(desc, labelValues) == Len(labelValues) = Len(desc)

\* settableCounterVec.Set: c.values = append(c.values, metric)
VecSet(vals, value, labelValues) ==
    Append(vals, [value |-> value, labels |-> labelValues])

\* A Collect that sends the buffer and forgets to clear it.
VecCollectKeeps(vals) == [emitted |-> vals, values |-> vals]

\* settableCounterVec.Collect: what is sent on ch, and c.values afterwards.
VecCollect(vals) == [emitted |-> vals, values |-> <<>>]

\* The nil prometheus.Metric of a settableCounter never Set.
NilMetric == [set |-> FALSE, value |-> 0]

\* settableCounter.Set: c.value = metric
CounterSet(value) == [set |-> TRUE, value |-> value]

\* settableCounter.Collect: ch <- c.value (the nil value too, after the
\* warning); c.value is left as it is.
CounterCollect(v) == [emitted |-> <<v>>, value |-> v]

-----------------------------------------------------------------------------
(* The state snapshot and its JSON decode (lines 12-33, 274-279, 603).     *)
(* A JSON object on the wire is the sequence of its <<key, value>> members *)
(* in the order the server wrote them; the decoder fills the Go struct     *)
(* member by member and stops at the first error a custom UnmarshalJSON    *)
(* returns, leaving what it had filled so far in the target.               *)

ZeroResources == [CPUs |-> 0, Disk |-> 0, Mem |-> 0, Ports |-> <<>>]

ZeroSlave ==
    [PID |-> <<>>, Hostname |-> <<>>, Id |-> <<>>, Port |-> 0,
     Used |-> ZeroResources, Unreserved |-> ZeroResources,
     Total |-> ZeroResources, Attributes |-> <<>>]

\* Decode the members of a resources object into r (struct resources).
RECURSIVE DecodeResources(_, _)

\* The "ports" member, u being what UnmarshalJSON made of it: its error ends
\* the decode, the intervals it appended before the error staying in r.
StorePorts(r, u, rest) ==
    IF u.err THEN [val |-> [r EXCEPT !.Ports = u.rs], err |-> TRUE]
    ELSE DecodeResources([r EXCEPT !.Ports = u.rs], rest)

DecodeResources(r, members) ==
    IF members = <<>> THEN [val |-> r, err |-> FALSE]
    ELSE LET key == Head(members)[1]
             v == Head(members)[2]
         IN  CASE key = "cpus" ->
                    DecodeResources([r EXCEPT !.CPUs = v], Tail(members))
               [] key = "disk" ->
                    DecodeResources([r EXCEPT !.Disk = v], Tail(members))
               [] key = "mem" ->
                    DecodeResources([r EXCEPT !.Mem = v], Tail(members))
               [] key = "ports" ->
                    StorePorts(r, UnmarshalJSON(r.Ports, v), Tail(members))
               [] OTHER -> DecodeResources(r, Tail(members))

\* The field of struct slave that a resources member of the wire is decoded
\* into (the json tags of lines 17-19).
ResourcesField(key) ==
    CASE key = "used_resources" -> "Used"
      [] key = "unreserved_resources" -> "Unreserved"
      [] key = "resources" -> "Total"

\* Decode the members of a slave object into s (struct slave).
RECURSIVE DecodeSlave(_, _)

\* A resources member, r being what the decode of its object gave: its error
\* ends the decode of the slave, what was decoded before it staying in s.
StoreResources(s, field, r, rest) ==
    IF r.err THEN [val |-> [s EXCEPT ![field] = r.val], err |-> TRUE]
    ELSE DecodeSlave([s EXCEPT ![field] = r.val], rest)

DecodeSlave(s, members) ==
    IF members = <<>> THEN [val |-> s, err |-> FALSE]
    ELSE LET key == Head(members)[1]
             v == Head(members)[2]
             rest == Tail(members)
         IN  CASE key = "pid" -> DecodeSlave([s EXCEPT !.PID = v], rest)
               [] key = "hostname" -> DecodeSlave([s EXCEPT !.Hostname = v], rest)
               [] key = "id" -> DecodeSlave([s EXCEPT !.Id = v], rest)
               [] key = "port" -> DecodeSlave([s EXCEPT !.Port = v], rest)
               [] key = "attributes" ->
                    DecodeSlave([s EXCEPT !.Attributes = v], rest)
               [] key \in {"used_resources", "unreserved_resources", "resources"} ->
                    StoreResources(s, ResourcesField(key),
                                   DecodeResources(s[ResourcesField(key)], v), rest)
               [] OTHER -> DecodeSlave(s, rest)

\* Decode the "slaves" array: the slice is grown to hold an element before
\* the element is decoded, so a failing element stays in it, half filled.
RECURSIVE DecodeSlaves(_, _)

\* The element d just decoded is in the slice; its error ends the decode.
StoreSlave(done, d, rest) ==
    IF d.err THEN [val |-> Append(done, d.val), err |-> TRUE]
    ELSE DecodeSlaves(Append(done, d.val), rest)

DecodeSlaves(done, nodes) ==
    IF nodes = <<>> THEN [val |-> done, err |-> FALSE]
    ELSE StoreSlave(done, DecodeSlave(ZeroSlave, Head(nodes)), Tail(nodes))

ZeroState == [Slaves |-> <<>>]

\* The state holding the slaves d that were decoded.
StateOf(d) == [val |-> [Slaves |-> d.val], err |-> d.err]

\* json.NewDecoder(res.Body).Decode(&target) for target *state.  A body that
\* is not one well-formed JSON value is refused before anything is stored.
DecodeState(body) ==
    IF body.syntax = "bad" THEN [val |-> ZeroState, err |-> TRUE]
    ELSE StateOf(DecodeSlaves(<<>>, body.slaves))

-----------------------------------------------------------------------------
(* The slave translators of newMasterStateCollector (lines 41-194).        *)

DigitChar(d) ==
    CASE d = 0 -> "0" [] d = 1 -> "1" [] d = 2 -> "2" [] d = 3 -> "3"
      [] d = 4 -> "4" [] d = 5 -> "5" [] d = 6 -> "6" [] d = 7 -> "7"
      [] d = 8 -> "8" [] d = 9 -> "9"

\* fmt.Sprintf("%d", n) for n >= 0
RECURSIVE FormatUint(_)
FormatUint(n) ==
    IF n < 10 THEN <<DigitChar(n)>>
    ELSE FormatUint(n \div 10) \o <<DigitChar(n % 10)>>

KiB == 1024

GaugeNames ==
    {"cpus", "cpus_used", "cpus_unreserved",
     "mem_bytes", "mem_used_bytes", "mem_unreserved_bytes",
     "disk_bytes", "disk_used_bytes", "disk_unreserved_bytes",
     "ports", "ports_used", "ports_unreserved"}

\* Fill functions that export mem and disk as they are decoded, unscaled.
GaugeValueUnscaled(name, s) ==
    CASE name = "cpus" -> s.Total.CPUs
      [] name = "cpus_used" -> s.Used.CPUs
      [] name = "cpus_unreserved" -> s.Unreserved.CPUs
      [] name = "mem_bytes" -> s.Total.Mem
      [] name = "mem_used_bytes" -> s.Used.Mem
      [] name = "mem_unreserved_bytes" -> s.Unreserved.Mem
      [] name = "disk_bytes" -> s.Total.Disk
      [] name = "disk_used_bytes" -> s.Used.Disk
      [] name = "disk_unreserved_bytes" -> s.Unreserved.Disk
      [] name = "ports" -> Float64(size(s.Total.Ports))
      [] name = "ports_used" -> Float64(size(s.Used.Ports))
      [] name = "ports_unreserved" -> Float64(size(s.Unreserved.Ports))

\* The value each of the twelve fill functions sets for slave s.
GaugeValue(name, s) ==
    CASE name = "cpus" -> s.Total.CPUs
      [] name = "cpus_used" -> s.Used.CPUs
      [] name = "cpus_unreserved" -> s.Unreserved.CPUs
      [] name = "mem_bytes" -> s.Total.Mem * KiB
      [] name = "mem_used_bytes" -> s.Used.Mem * KiB
      [] name = "mem_unreserved_bytes" -> s.Unreserved.Mem * KiB
      [] name = "disk_bytes" -> s.Total.Disk * KiB
      [] name = "disk_used_bytes" -> s.Used.Disk * KiB
      [] name = "disk_unreserved_bytes" -> s.Unreserved.Disk * KiB
      [] name = "ports" -> Float64(size(s.Total.Ports))
      [] name = "ports_used" -> Float64(size(s.Used.Ports))
      [] name = "ports_unreserved" -> Float64(size(s.Unreserved.Ports))

\* WithLabelValues(s.PID, s.Hostname, fmt.Sprintf("%d", s.Port), s.Id)
SlaveLabelValues(s) == <<s.PID, s.Hostname, FormatUint(s.Port), s.Id>>

\* One fill function: for every slave, Set its value on the child of the
\* GaugeVec g with the slave's label values (created when missing).
RECURSIVE FillGauge(_, _, _)
FillGauge(g, name, slaves) ==
    IF slaves = <<>> THEN g
    ELSE LET s == Head(slaves)
             lv == SlaveLabelValues(s)
             g2 == [x \in DOMAIN g \cup {lv} |->
                        IF x = lv THEN GaugeValue(name, s) ELSE g[x]]
         IN  FillGauge(g2, name, Tail(slaves))

\* GaugeVec.Collect: one sample per child the vector holds.
GaugeCollect(name, g) ==
    {[name |-> name, labels |-> lv, value |-> g[lv]] : lv \in DOMAIN g}

\* The loop over s.Attributes in the iteration order keys (lines 183-190).
RECURSIVE ApplyAttributes(_, _, _, _)
ApplyAttributes(export, attrs, keys, normalisedAttributeLabels) ==
    IF keys = <<>> THEN export
    ELSE LET normalisedLabel == normaliseLabel(Head(keys))
             a == attributeString(attrs[Head(keys)])
             e2 == IF stringInSlice(normalisedLabel, normalisedAttributeLabels)
                      /\ ~a.err
                   THEN [x \in DOMAIN export \cup {normalisedLabel} |->
                            IF x = normalisedLabel THEN a.val ELSE export[x]]
                   ELSE export
         IN  ApplyAttributes(e2, attrs, Tail(keys), normalisedAttributeLabels)

\* slaveAttributesExport of one slave (lines 175-190): "slave" is the pid,
\* every configured label starts empty, then the attributes are applied.
SlaveAttributesExport(s, keys, normalisedAttributeLabels) ==
    LET names == {Labels[1]} \cup
                 {normalisedAttributeLabels[i] :
                      i \in 1..Len(normalisedAttributeLabels)}
        init == [x \in names |->
                    IF stringInSlice(x, normalisedAttributeLabels)
                    THEN <<>> ELSE s.PID]
    IN  ApplyAttributes(init, s.Attributes, keys, normalisedAttributeLabels)

\* The attributes fill function (lines 173-193): one Set per slave.  orders
\* gives, per slave, the order in which its Attributes map is iterated.
RECURSIVE FillAttributes(_, _, _, _)
FillAttributes(vals, slaves, orders, labelList) ==
    IF slaves = <<>> THEN vals
    ELSE LET export == SlaveAttributesExport(Head(slaves), Head(orders),
                                             normaliseLabelList(labelList))
             lvs == getLabelValuesFromMap(export,
                                          slaveAttributesLabelsExport(labelList))
         IN  FillAttributes(VecSet(vals, 1, lvs), Tail(slaves), Tail(orders),
                            labelList)

\* The iteration orders of the Attributes maps of a list of slaves.
RECURSIVE AttributeOrders(_)
AttributeOrders(slaves) ==
    IF slaves = <<>> THEN {<<>>}
    ELSE {<<o>> \o rest : o \in Orders(DOMAIN Head(slaves).Attributes),
                          rest \in AttributeOrders(Tail(slaves))}

\* The keys of the metrics map in the order of the source: the twelve
\* GaugeVecs, and the attributes counter when attribute labels are configured
\* (line 169).
MetricNames(labelList) ==
    <<"cpus", "cpus_used", "cpus_unreserved",
      "mem_bytes", "mem_used_bytes", "mem_unreserved_bytes",
      "disk_bytes", "disk_used_bytes", "disk_unreserved_bytes",
      "ports", "ports_used", "ports_unreserved">>
    \o (IF Len(labelList) > 0 THEN <<"attributes">> ELSE <<>>)

Reverse(s) == [i \in 1..Len(s) |-> s[Len(s) + 1 - i]]

\* The orders in which the model lets the map of metrics be iterated: Go
\* yields the keys of a map in any order; the model takes that of the source
\* and its reverse.
MetricOrders(labelList) == {MetricNames(labelList), Reverse(MetricNames(labelList))}

\* What is left when the attributes counter was filled and collected (c).
StoreCollected(acc, c) == [acc EXCEPT !.values = c.values, !.attrs = c.emitted]

\* What is left when the GaugeVec n was filled (g) and collected.
StoreGauge(acc, n, g) ==
    [acc EXCEPT !.gauges[n] = g, !.emitted = @ \cup GaugeCollect(n, g)]

\* One turn of the loop of masterCollector.Collect (lines 206-209) for the
\* metric n: set(&s, c) then c.Collect(ch).  acc holds the GaugeVecs, the
\* buffer of the attributes counter and what was sent on ch so far.
RunMetric(acc, n, slaves, attrOrders, labelList) ==
    IF n = "attributes"
    THEN StoreCollected(acc, VecCollect(FillAttributes(acc.values, slaves,
                                                       attrOrders, labelList)))
    ELSE StoreGauge(acc, n, FillGauge(acc.gauges[n], n, slaves))

\* The loop over the metrics in the given order.
RECURSIVE RunMetrics(_, _, _, _, _)
RunMetrics(acc, order, slaves, attrOrders, labelList) ==
    IF order = <<>> THEN acc
    ELSE RunMetrics(RunMetric(acc, Head(order), slaves, attrOrders, labelList),
                    Tail(order), slaves, attrOrders, labelList)

-----------------------------------------------------------------------------
(* The version and metrics-snapshot payloads (lines 348, 471-477).         *)
(* A member on the wire is <<key, type, value>>; a member whose JSON type  *)
(* does not fit the Go field is skipped, the decode goes on and reports    *)
(* the type error at the end.                                              *)

ZeroVersion ==
    [BuildDate |-> <<>>, BuildTime |-> 0, GitSHA |-> <<>>, GitTag |-> <<>>,
     Version |-> <<>>]

RECURSIVE DecodeVersionMembers(_, _, _)
DecodeVersionMembers(vf, err, members) ==
    IF members = <<>> THEN [val |-> vf, err |-> err]
    ELSE LET key == Head(members)[1]
             type == Head(members)[2]
             v == Head(members)[3]
             rest == Tail(members)
             want == IF key = "build_time" THEN "number" ELSE "string"
         IN  IF key \notin {"build_date", "build_time", "git_sha", "git_tag",
                            "version"}
             THEN DecodeVersionMembers(vf, err, rest)
             ELSE IF type # want THEN DecodeVersionMembers(vf, TRUE, rest)
             ELSE CASE key = "build_date" ->
                         DecodeVersionMembers([vf EXCEPT !.BuildDate = v], err, rest)
                    [] key = "build_time" ->
                         DecodeVersionMembers([vf EXCEPT !.BuildTime = v], err, rest)
                    [] key = "git_sha" ->
                         DecodeVersionMembers([vf EXCEPT !.GitSHA = v], err, rest)
                    [] key = "git_tag" ->
                         DecodeVersionMembers([vf EXCEPT !.GitTag = v], err, rest)
                    [] key = "version" ->
                         DecodeVersionMembers([vf EXCEPT !.Version = v], err, rest)

DecodeVersion(body) ==
    IF body.syntax = "bad" THEN [val |-> ZeroVersion, err |-> TRUE]
    ELSE DecodeVersionMembers(ZeroVersion, FALSE, body.members)

\* A metricMap is a function from the keys it holds to numbers; the nil map
\* of "var m metricMap" holds none.
ZeroMetricMap == <<>>

RECURSIVE DecodeMetricMembers(_, _, _)
DecodeMetricMembers(m, err, members) ==
    IF members = <<>> THEN [val |-> m, err |-> err]
    ELSE LET key == Head(members)[1]
             type == Head(members)[2]
             v == Head(members)[3]
         IN  IF type # "number"
             THEN DecodeMetricMembers(m, TRUE, Tail(members))
             ELSE DecodeMetricMembers(
                      [x \in DOMAIN m \cup {key} |-> IF x = key THEN v ELSE m[x]],
                      err, Tail(members))

DecodeMetricMap(body) ==
    IF body.syntax = "bad" THEN [val |-> ZeroMetricMap, err |-> TRUE]
    ELSE DecodeMetricMembers(ZeroMetricMap, FALSE, body.members)

\* fmt.Sprintf("%f", x) for a whole number x >= 0
FormatFloat(x) == FormatUint(x) \o <<".", "0", "0", "0", "0", "0", "0">>

\* WithLabelValues(vf.BuildDate, fmt.Sprintf("%f", vf.BuildTime), vf.GitSHA,
\* vf.GitTag, vf.Version)
VersionLabelValues(vf) ==
    <<vf.BuildDate, FormatFloat(vf.BuildTime), vf.GitSHA, vf.GitTag, vf.Version>>

-----------------------------------------------------------------------------
(* The HTTP client and its token cache (lines 432-449, 500-613).           *)
(* An operator of this section takes the environment's part in the call as *)
(* env: tick (how far the clock moved between the two readings of          *)
(* time.Now), sign (the outcome of token.SignedString), login (the login   *)
(* endpoint's answer) and resp (the answer to the GET).  It returns the    *)
(* call's result together with the state it leaves and what it sent.       *)

\* A request without an Authorization header.
NoHeader == <<"no header">>

\* fmt.Sprintf("token=%s", token.Token); the empty string is <<>>.
FormatToken(tk) == <<"token=", tk>>

\* signingToken: reads the clock again, stores the new expiry, then signs.
\* With an unparsed key the error is only logged and signing goes on with
\* the nil key.
signingToken(a, now, env) ==
    LET expireToken == now + env.tick + Hour
        a2 == [a EXCEPT !.tokenExpire = expireToken]
    IN  [auth |-> a2,
         clock |-> now + env.tick,
         panicked |-> env.sign = "panic",
         tokenString |-> IF env.sign = "ok" THEN "jwt" ELSE ""]

\* The expiry test off by one: a token is refreshed in its last second.
ExpiredAtExpiry(now, a) == now >= a.tokenExpire

\* The test of line 529: currentTime > httpClient.auth.tokenExpire
Expired(now, a) == now > a.tokenExpire

\* authToken.  Result: token (the string returned), auth and clock after the
\* call, posts (login requests issued), errs (errorCounter increments),
\* panicked.
authToken(a, now, env) ==
    IF Expired(now, a)
    THEN LET st == signingToken(a, now, env)
             base == [auth |-> st.auth, clock |-> st.clock, posts |-> 0,
                      errs |-> 0, panicked |-> FALSE, token |-> <<>>,
                      posted |-> Nil]
         IN  IF st.panicked THEN [base EXCEPT !.panicked = TRUE]
             ELSE IF ~cfg.loginURLValid THEN base
             ELSE IF env.login.err
                  THEN [base EXCEPT !.posts = 1, !.errs = 1,
                                    !.posted = st.tokenString]
             ELSE IF env.login.syntax = "bad"
                  THEN [base EXCEPT !.posts = 1, !.errs = 1,
                                    !.posted = st.tokenString]
             ELSE [base EXCEPT !.posts = 1,
                               !.posted = st.tokenString,
                               !.auth.token = FormatToken(env.login.token),
                               !.token = FormatToken(env.login.token)]
    ELSE [auth |-> a, clock |-> now, posts |-> 0, errs |-> 0,
          panicked |-> FALSE, token |-> a.token, posted |-> Nil]

\* httpClient.fetchAndDecode(endpoint, target).  target is the value the caller
\* declared for the endpoint and decoded is what json's Decode(&target) makes
\* of the response body (used only when a response arrived).  Result: ok (the
\* flag returned), target, gets (GET requests issued), sent (the Authorization
\* header, NoHeader when none was added), and the fields of authToken's result.
fetchAndDecode(a, now, env, target, decoded) ==
    LET idle == [ok |-> FALSE, target |-> target, auth |-> a, clock |-> now,
                 gets |-> 0, posts |-> 0, errs |-> 0, panicked |-> FALSE,
                 sent |-> NoHeader, status |-> 0, decoded |-> FALSE]
    IN  IF ~cfg.urlValid THEN idle
        ELSE LET t == IF cfg.strictMode THEN authToken(a, now, env)
                      ELSE [auth |-> a, clock |-> now, posts |-> 0, errs |-> 0,
                            panicked |-> FALSE, token |-> NoHeader,
                            posted |-> Nil]
                 called == [idle EXCEPT !.auth = t.auth, !.clock = t.clock,
                                        !.posts = t.posts, !.errs = t.errs]
             IN  IF t.panicked THEN [called EXCEPT !.panicked = TRUE]
                 ELSE IF env.resp.err
                      THEN [called EXCEPT !.gets = 1, !.sent = t.token,
                                          !.errs = t.errs + 1]
                 ELSE LET d == decoded
                      IN  [called EXCEPT !.gets = 1, !.sent = t.token,
                                         !.status = env.resp.status,
                                         !.target = d.val,
                                         !.decoded = ~d.err,
                                         !.ok = ~d.err,
                                         !.errs = t.errs + (IF d.err THEN 1 ELSE 0)]

-----------------------------------------------------------------------------
(* The numeric-map collector (lines 491-498, 615-630).                     *)

\* The source keys of the extraction functions given to newMetricCollector.
MetricKeys == {"cpus_total", "mem_total", "uptime"}

\* An extraction function for source key k (the functors live outside this
\* file): it reports an error when k is absent from the snapshot, otherwise
\* it sets its gauge to m[k].
Extract(m, k) ==
    IF k \in DOMAIN m THEN [err |-> FALSE, val |-> m[k]]
    ELSE [err |-> TRUE, val |-> 0]

\* The loop of metricCollector.Collect over c.metrics in the iteration order
\* keys.  On an extraction error the loop makes a fresh channel and receives
\* from it (lines 620-622): nothing was sent on it, so the receive never
\* returns and the call stays blocked there, before errorCounter.Inc().
RECURSIVE RunExtractors(_, _, _)
RunExtractors(acc, m, keys) ==
    IF keys = <<>> THEN acc
    ELSE LET k == Head(keys)
             e == Extract(m, k)
         IN  IF e.err THEN [acc EXCEPT !.blocked = TRUE]
             ELSE RunExtractors(
                      [acc EXCEPT !.metrics[k] = e.val,
                                  !.ran = acc.ran \cup {k},
                                  !.emitted = acc.emitted \cup
                                      {[name |-> k, labels |-> <<>>,
                                        value |-> e.val]}],
                      m, Tail(keys))

-----------------------------------------------------------------------------
(* What the environment can supply.                                        *)

S1 == <<"s", "1">>
S2 == <<"s", "2">>
Rack == <<"r", "a", "c", "k">>
Zone == <<"z", "o", "n", "e">>
ADotB == <<"a", ".", "b">>
ADashB == <<"a", "-", "b">>

\* Raw JSON attribute values.
RawThree == <<"3">>
RawX == <<Quote, "x", Quote>>
RawY == <<Quote, "y", Quote>>
RawPath == <<Quote, "a", "/", "b", ".", "c", Quote>>
RawSpace == <<Quote, "a", " ", "b", Quote>>
RawDash == <<Quote, "a", "-", "b", Quote>>

\* Raw JSON values of a ports member.
PortsOne == <<Quote, "[", "1", "-", "3", "]", Quote>>
PortsTwo == <<Quote, "[", "1", "-", "3", ",", " ", "5", "-", "5", "]", Quote>>
PortsBad == <<Quote, "[", "1", "-", "3", ",", "7", "]", Quote>>

WireResources(c, ports) ==
    << <<"disk", c + 2>>, <<"mem", c + 1>>, <<"cpus", c>>, <<"ports", ports>> >>

\* One element of "slaves" as the master writes it.
WireSlave(pid, c, total, used, unreserved, attrs) ==
    << <<"id", <<"i">> \o pid>>, <<"hostname", <<"h">> \o pid>>,
       <<"port", 5051>>, <<"attributes", attrs>>, <<"pid", pid>>,
       <<"resources", WireResources(c + 1, total)>>,
       <<"used_resources", WireResources(c, used)>>,
       <<"unreserved_resources", WireResources(1, unreserved)>> >>

RackThree == [k \in {Rack, Zone} |-> IF k = Rack THEN RawThree ELSE RawX]
Colliding == [k \in {ADotB, ADashB} |-> IF k = ADotB THEN RawX ELSE RawY]
RackSpace == [k \in {Rack} |-> RawSpace]
RackDash == [k \in {Rack} |-> RawDash]
RackPath == [k \in {Rack} |-> RawPath]

WireSlaves ==
    { WireSlave(S1, 1, PortsOne, PortsOne, PortsOne, RackThree),
      WireSlave(S1, 2, PortsTwo, PortsOne, PortsOne, RackDash),
      WireSlave(S2, 1, PortsOne, PortsOne, PortsOne, Colliding),
      WireSlave(S2, 2, PortsBad, PortsOne, PortsOne, RackSpace),
      WireSlave(S1, 1, PortsOne, PortsOne, PortsBad, RackPath) }

StateBodies ==
    {[syntax |-> "bad", slaves |-> <<>>]} \cup
    {[syntax |-> "ok", slaves |-> ns] :
        ns \in UNION {[1..n -> WireSlaves] : n \in 0..MaxNodes}}

V17 == <<"1", ".", "7">>
V18 == <<"1", ".", "8">>

WireVersion(v, timeType) ==
    << <<"build_date", "string", <<"d">> >>,
       <<"build_time", timeType, IF timeType = "number" THEN 7 ELSE <<"7">> >>,
       <<"git_sha", "string", <<"c">> \o v>>,
       <<"git_tag", "string", v>>, <<"version", "string", v>> >>

VersionBodies ==
    {[syntax |-> "bad", members |-> <<>>],
     [syntax |-> "ok", members |-> WireVersion(V17, "number")],
     [syntax |-> "ok", members |-> WireVersion(V18, "number")],
     [syntax |-> "ok", members |-> WireVersion(V17, "string")]}

MetricBodies ==
    {[syntax |-> "bad", members |-> <<>>]} \cup
    {[syntax |-> "ok",
      members |-> << <<"cpus_total", t1, 4>>, <<"mem_total", "number", v>> >>
                  \o IF up THEN << <<"uptime", "number", 9>> >> ELSE <<>>] :
        t1 \in {"number", "string"}, v \in {1, 2}, up \in BOOLEAN}

\* The answers to a GET: a transport error, or a response with a status and
\* a body.
Responses(bodies) ==
    {[err |-> TRUE, status |-> 0, body |-> [syntax |-> "bad"]]} \cup
    {[err |-> FALSE, status |-> st, body |-> b] : st \in {200, 503}, b \in bodies}

\* The answers of the login endpoint: a transport error, a body that is not
\* JSON, or a JSON object whose "token" member is token ("" when it has none).
LoginAnswers ==
    {[err |-> TRUE, syntax |-> "bad", token |-> ""],
     [err |-> FALSE, syntax |-> "bad", token |-> ""]} \cup
    {[err |-> FALSE, syntax |-> "ok", token |-> tk] : tk \in {"", "t1", "t2"}}

\* token.SignedString(signKey): with a parsed key it signs or reports an
\* error; with the nil key left by a failed parse it cannot sign, and
\* reports an error or panics on the nil key.
SignOutcomes == IF cfg.keyValid THEN {"ok", "err"} ELSE {"err", "panic"}

\* The environment's part in one fetchAndDecode.  When the token chain is
\* not entered (no strict mode, a base URL that is refused, a token that has
\* not expired) its part in the chain is fixed.
Envs(bodies) ==
    IF cfg.strictMode /\ cfg.urlValid /\ clock > auth.tokenExpire
    THEN {[tick |-> d, sign |-> sg, login |-> lg, resp |-> rs] :
            d \in {0, 1}, sg \in SignOutcomes, lg \in LoginAnswers,
            rs \in Responses(bodies)}
    ELSE {[tick |-> 0, sign |-> "ok",
           login |-> [err |-> TRUE, syntax |-> "bad", token |-> ""],
           resp |-> rs] : rs \in Responses(bodies)}

-----------------------------------------------------------------------------
(* The state after construction.                                           *)

NoResponse == [err |-> TRUE, status |-> 0, body |-> [syntax |-> "bad"]]

NoCall ==
    [op |-> "none", ok |-> FALSE, gets |-> 0, posts |-> 0, errs |-> 0,
     sent |-> NoHeader, posted |-> Nil, panicked |-> FALSE, blocked |-> FALSE,
     resp |-> NoResponse, target |-> <<>>, emitted |-> {}, attrs |-> <<>>,
     order |-> <<>>,
     ran |-> {}, sets |-> <<>>, sign |-> Nil,
     login |-> [err |-> TRUE, syntax |-> "bad", token |-> ""]]

\* The grouped collector before any call: no Describe seen, no Collect in
\* progress.
NoGroupCall ==
    [pc |-> "idle", next |-> 1, described |-> <<>>, invoked |-> <<>>, n |-> 0]

\* No Collect call is in progress on the masterCollector.
NoScrapes == <<>>

\* var rs ranges: the nil slice, before any operation of the codec.
NoRanges ==
    [op |-> "none", kind |-> "none", src |-> <<>>, data |-> <<>>, before |-> <<>>,
     rs |-> <<>>, err |-> FALSE, sz |-> ZeroU64, n |-> 0]

\* The allowlists of attribute labels the model is configured with.  Their
\* sanitized names are distinct and differ from the four fixed label names:
\* a descriptor with a repeated label name is invalid and a registry does
\* not register its collector.
AttributeLabelLists == {<<>>, <<Rack>>, <<ADotB>>, <<Rack, ADotB>>}

InitState ==
    /\ clock = 1
    /\ auth = [token |-> <<>>, tokenExpire |-> 0]
    /\ errorCounter = 0
    /\ values = <<>>
    /\ ctrValue = NilMetric
    /\ gauges = [n \in GaugeNames |-> <<>>]
    /\ verMetric = <<>>
    /\ mcMetrics = [k \in MetricKeys |-> 0]
    /\ calls = 0
    /\ ghost = [sets |-> <<>>, ctrSets |-> <<>>]
    /\ rng = NoRanges
    /\ grp = NoGroupCall
    /\ procs = NoScrapes
    /\ last = NoCall

-----------------------------------------------------------------------------
(* Operations on the settable counters alone.                              *)

\* The label values a caller may pass to Set: one per label name of the
\* descriptor, or one too few.
SetLabelValues ==
    {<<pid, <<>>, <<>>, <<>>, v>> : pid \in {S1, S2}, v \in {<<>>, <<"3">>}}
    \cup {<<S1, <<>>, <<>>, <<>> >>}

\* c.Set(value, labelValues...) on the attributes counter; a panic of
\* MustNewConstMetric leaves c.values as it was.
VecSetOp ==
    \E lvs \in SetLabelValues :
        /\ Len(values) < MaxBuf
        /\ IF ConstMetricOK(slaveAttributesLabelsExport(cfg.labels), lvs)
           THEN /\ values' = VecSet(values, 1, lvs)
                /\ ghost' = [ghost EXCEPT !.sets = Append(@, lvs)]
                /\ last' = [NoCall EXCEPT !.op = "VecSet"]
           ELSE /\ UNCHANGED <<values, ghost>>
                /\ last' = [NoCall EXCEPT !.op = "VecSet", !.panicked = TRUE]
        /\ UNCHANGED <<rng, grp, procs, cfg, clock, auth, errorCounter, ctrValue, gauges,
                       verMetric, mcMetrics, calls>>

\* c.Collect(ch) on the attributes counter.
VecCollectOp ==
    LET c == VecCollect(values)
    IN  /\ values' = c.values
        /\ last' = [NoCall EXCEPT !.op = "VecCollect", !.attrs = c.emitted,
                                  !.sets = ghost.sets]
        /\ ghost' = [ghost EXCEPT !.sets = <<>>]
        /\ UNCHANGED <<rng, grp, procs, cfg, clock, auth, errorCounter, ctrValue, gauges,
                       verMetric, mcMetrics, calls>>

\* c.Set(value) on a settableCounter.
CounterSetOp ==
    \E v \in {1, 2} :
        /\ Len(ghost.ctrSets) < MaxBuf
        /\ ctrValue' = CounterSet(v)
        /\ ghost' = [ghost EXCEPT !.ctrSets = Append(@, v)]
        /\ last' = [NoCall EXCEPT !.op = "CounterSet"]
        /\ UNCHANGED <<rng, grp, procs, cfg, clock, auth, errorCounter, values, gauges,
                       verMetric, mcMetrics, calls>>

\* c.Collect(ch) on a settableCounter.
CounterCollectOp ==
    LET c == CounterCollect(ctrValue)
    IN  /\ ctrValue' = c.value
        /\ last' = [NoCall EXCEPT !.op = "CounterCollect",
                                  !.attrs = c.emitted, !.sets = ghost.ctrSets]
        /\ ghost' = [ghost EXCEPT !.ctrSets = <<>>]
        /\ UNCHANGED <<rng, grp, procs, cfg, clock, auth, errorCounter, values, gauges,
                       verMetric, mcMetrics, calls>>

InitCache ==
    /\ cfg = [strictMode |-> FALSE, urlValid |-> TRUE, loginURLValid |-> TRUE,
              keyValid |-> TRUE, labels |-> <<Rack>>]
    /\ InitState

NextCache == VecSetOp \/ VecCollectOp \/ CounterSetOp \/ CounterCollectOp

SpecCache == InitCache /\ [][NextCache]_vars

-----------------------------------------------------------------------------
(* Operations of the range codec alone.                                    *)

\* The numbers of the range texts: the digits as they stand in the text, and
\* the value they denote.
RangeNumbers ==
    {[text |-> <<"0">>, val |-> ZeroU64],
     [text |-> <<"3">>, val |-> <<3, 0, 0, 0>>],
     [text |-> <<"5">>, val |-> <<5, 0, 0, 0>>],
     [text |-> <<"2", "0", "0">>, val |-> <<200, 0, 0, 0>>],
     [text |-> <<"1","8","4","4","6","7","4","4","0","7","3","7","0","9","5",
                 "5","1","6","1","5">>, val |-> MaxU64]}

\* The lists of one or two intervals <<lo, hi>> of such numbers.
RangeSources ==
    LET I == RangeNumbers \X RangeNumbers
    IN  {<<i>> : i \in I} \cup (I \X I)

\* The text of a list of intervals, the intervals separated by sep.
RECURSIVE JoinIntervals(_, _)
JoinIntervals(src, sep) ==
    IF src = <<>> THEN <<>>
    ELSE (IF Len(src) > 1 THEN JoinIntervals(SubSeq(src, 1, Len(src) - 1), sep) \o sep
          ELSE <<>>)
         \o src[Len(src)][1].text \o <<"-">> \o src[Len(src)][2].text

\* The three ways the model writes a list of intervals as the raw JSON value
\* handed to UnmarshalJSON: "[1-3, 5-5]" as Mesos writes it, "1-3,5-5", and
\* [ 1 - 3,5 - 5] with blanks around the numbers.
RangeStyles == {"mesos", "bare", "spaced"}

FormatRanges(src, style) ==
    CASE style = "mesos" ->
           <<Quote, "[">> \o JoinIntervals(src, <<",", " ">>) \o <<"]", Quote>>
      [] style = "bare" -> <<Quote>> \o JoinIntervals(src, <<",">>) \o <<Quote>>
      [] style = "spaced" ->
           <<Quote, "[">>
           \o JoinIntervals([i \in 1..Len(src) |->
                               <<[src[i][1] EXCEPT !.text = <<" ">> \o @ \o <<" ">>],
                                 [src[i][2] EXCEPT !.text = <<" ">> \o @ \o <<" ">>]>>],
                            <<",">>)
           \o <<"]", Quote>>

\* The raw values of an empty range field.
EmptyRangeTexts == {<<Quote, Quote>>, <<Quote, "[", "]", Quote>>, <<"[", "]">>, <<>>}

\* Raw values that are no list of intervals: a lone number, a missing bound,
\* a bound that is no number, a bound of more than 64 bits, an empty segment.
MalformedRangeTexts ==
    {<<Quote, "7", Quote>>,
     <<Quote, "1", "-", Quote>>,
     <<Quote, "a", "-", "3", Quote>>,
     <<Quote, "1", "-", "2", "-", "3", Quote>>,
     <<Quote, "0", "-", "1","8","4","4","6","7","4","4","0","7","3","7","0","9",
       "5","5","1","6","1","6", Quote>>,
     <<Quote, "[", "1", "-", "3", ",", "]", Quote>>,
     PortsBad}

\* The inputs of a decode: the kind of text, the intervals it was written
\* from (none for the other kinds) and the raw value.
RangeInputs ==
    {[kind |-> "intervals", src |-> src, data |-> FormatRanges(src, st)] :
        src \in RangeSources, st \in RangeStyles}
    \cup {[kind |-> "empty", src |-> <<>>, data |-> d] : d \in EmptyRangeTexts}
    \cup {[kind |-> "malformed", src |-> <<>>, data |-> d] :
            d \in MalformedRangeTexts}

\* The inputs of a second decode into the same value (a field that comes
\* twice in one JSON object is decoded twice into the same target).
SecondRangeInputs ==
    {in \in RangeInputs :
        in.data \in {PortsOne, PortsBad, <<Quote, "[", "]", Quote>>,
                     <<Quote, "5", "-", "3", Quote>>}}

\* rs.UnmarshalJSON(data)
RangesUnmarshalOp ==
    /\ rng.n < MaxDecodes
    /\ \E in \in IF rng.n = 0 THEN RangeInputs ELSE SecondRangeInputs :
       \E u \in {UnmarshalJSON(rng.rs, in.data)} :
          rng' = [op |-> "UnmarshalJSON", kind |-> in.kind, src |-> in.src,
                  data |-> in.data, before |-> rng.rs, rs |-> u.rs,
                  err |-> u.err, sz |-> rng.sz, n |-> rng.n + 1]
    /\ UNCHANGED <<cfg, clock, auth, errorCounter, values, ctrValue, gauges,
                   verMetric, mcMetrics, calls, ghost, grp, procs, last>>

\* rs.size()
RangesSizeOp ==
    /\ rng.op # "size"
    /\ rng' = [rng EXCEPT !.op = "size", !.sz = size(rng.rs)]
    /\ UNCHANGED <<cfg, clock, auth, errorCounter, values, ctrValue, gauges,
                   verMetric, mcMetrics, calls, ghost, grp, procs, last>>

InitRanges == InitCache

NextRanges == RangesUnmarshalOp \/ RangesSizeOp

SpecRanges == InitRanges /\ [][NextRanges]_vars

-----------------------------------------------------------------------------
(* The collectors.                                                         *)

\* What a Collect call records of its fetchAndDecode r in environment env:
\* the answer to the GET when one was issued, and the outcomes of signing
\* and of the login request when the token chain was entered.
Fetched(op, r, env) ==
    [NoCall EXCEPT !.op = op, !.ok = r.ok, !.gets = r.gets, !.posts = r.posts,
                   !.errs = r.errs, !.sent = r.sent, !.panicked = r.panicked,
                   !.resp = IF r.gets = 1 THEN env.resp ELSE NoResponse,
                   !.target = r.target,
                   !.sign = IF r.auth.tokenExpire # auth.tokenExpire
                            THEN env.sign ELSE Nil,
                   !.login = IF r.posts = 1 THEN env.login ELSE NoCall.login]

\* masterCollector.Collect (lines 202-210): the flag fetchAndDecode returns
\* is dropped, and the metrics are filled from s as the decode left it and
\* collected, in the order in which the map yields them.
MasterCollect ==
    /\ calls < MaxCalls
    /\ \E env \in Envs(StateBodies) :
       \E r \in {fetchAndDecode(auth, clock, env, ZeroState, DecodeState(env.resp.body))} :
         /\ auth' = r.auth
         /\ clock' = r.clock
         /\ errorCounter' = errorCounter + r.errs
         /\ IF r.panicked
            THEN /\ last' = Fetched("MasterCollect", r, env)
                 /\ UNCHANGED <<gauges, values>>
            ELSE \E orders \in AttributeOrders(r.target.Slaves) :
                 \E order \in MetricOrders(cfg.labels) :
                 \E x \in {RunMetrics([gauges |-> gauges, values |-> values,
                                        emitted |-> {}, attrs |-> <<>>],
                                       order, r.target.Slaves, orders,
                                       cfg.labels)} :
                   /\ gauges' = x.gauges
                   /\ values' = x.values
                   /\ last' = [Fetched("MasterCollect", r, env)
                               EXCEPT !.emitted = x.emitted,
                                      !.attrs = x.attrs,
                                      !.order = order]
    /\ calls' = calls + 1
    /\ UNCHANGED <<rng, grp, procs, cfg, ctrValue, verMetric, mcMetrics, ghost>>

\* versionCollector.Collect (lines 479-485).
VersionCollectCall ==
    /\ \E env \in Envs(VersionBodies) :
       \E r \in {fetchAndDecode(auth, clock, env, ZeroVersion, DecodeVersion(env.resp.body))} :
         /\ auth' = r.auth
         /\ clock' = r.clock
         /\ errorCounter' = errorCounter + r.errs
         /\ IF r.ok
            THEN \E m2 \in {[x \in DOMAIN verMetric
                                    \cup {VersionLabelValues(r.target)} |-> 1]} :
                   /\ verMetric' = m2
                   /\ last' = [Fetched("VersionCollect", r, env)
                               EXCEPT !.emitted = GaugeCollect("version", m2)]
            ELSE /\ verMetric' = verMetric
                 /\ last' = Fetched("VersionCollect", r, env)
    /\ calls' = calls + 1
    /\ UNCHANGED <<rng, procs, cfg, values, ctrValue, gauges, mcMetrics, ghost>>

VersionCollect == calls < MaxCalls /\ VersionCollectCall /\ UNCHANGED grp

\* metricCollector.Collect (lines 615-630): the flag of fetchAndDecode is
\* dropped here too.
MetricCollectCall ==
    /\ \E env \in Envs(MetricBodies) :
       \E r \in {fetchAndDecode(auth, clock, env, ZeroMetricMap, DecodeMetricMap(env.resp.body))} :
         /\ auth' = r.auth
         /\ clock' = r.clock
         /\ errorCounter' = errorCounter + r.errs
         /\ IF r.panicked
            THEN /\ last' = Fetched("MetricCollect", r, env)
                 /\ UNCHANGED mcMetrics
            ELSE \E keys \in Orders(MetricKeys) :
                 \E x \in {RunExtractors([metrics |-> mcMetrics, ran |-> {},
                                          emitted |-> {}, blocked |-> FALSE],
                                         r.target, keys)} :
                   /\ mcMetrics' = x.metrics
                   /\ last' = [Fetched("MetricCollect", r, env)
                               EXCEPT !.emitted = x.emitted, !.ran = x.ran,
                                      !.blocked = x.blocked]
    /\ calls' = calls + 1
    /\ UNCHANGED <<rng, procs, cfg, values, ctrValue, gauges, verMetric, ghost>>

MetricCollect == calls < MaxCalls /\ MetricCollectCall /\ UNCHANGED grp

\* newStandardCollector (lines 341-346): the members of the grouped
\* collector, in the order given to newGroupedCollector.
Collectors == <<"metricCollector", "versionCollector">>

\* groupedCollector.Describe (lines 329-333): Describe of every member in
\* turn.  metricCollector.Describe sends nothing and versionCollector.Describe
\* sends the descriptor of its gauge; neither can fail.  The registry calls
\* it when the collector is registered.
GroupDescribe ==
    /\ grp.pc = "idle"
    /\ grp.described = <<>>
    /\ grp.n = 0
    /\ grp' = [grp EXCEPT !.described = [i \in 1..Len(Collectors) |-> Collectors[i]]]
    /\ UNCHANGED <<rng, procs, cfg, clock, auth, errorCounter, values, ctrValue,
                   gauges, verMetric, mcMetrics, calls, ghost, last>>

\* groupedCollector.Collect is entered (line 335): the loop stands before
\* its first member.
GroupCollectStart ==
    /\ grp.pc = "idle"
    /\ grp.n < MaxScrapes
    /\ grp' = [grp EXCEPT !.pc = "running", !.next = 1, !.invoked = <<>>]
    /\ UNCHANGED <<rng, procs, cfg, clock, auth, errorCounter, values, ctrValue,
                   gauges, verMetric, mcMetrics, calls, ghost, last>>

\* Where the loop of groupedCollector.Collect stands once the Collect of
\* member i has been called and left the record c: a member that panicked
\* unwinds the loop, a member that is blocked never returns into it.
AfterMember(g, i, c) ==
    [g EXCEPT !.invoked = Append(g.invoked, Collectors[i]),
              !.next = i + 1,
              !.pc = IF c.panicked THEN "panicked"
                     ELSE IF c.blocked THEN "blocked" ELSE "running"]

\* One turn of the loop of lines 336-338: collector.Collect(ch) of the next
\* member.
GroupCollectMember ==
    /\ grp.pc = "running"
    /\ grp.next <= Len(Collectors)
    /\ \/ Collectors[grp.next] = "metricCollector" /\ MetricCollectCall
       \/ Collectors[grp.next] = "versionCollector" /\ VersionCollectCall
    /\ grp' = AfterMember(grp, grp.next, last')

\* The loop is over and groupedCollector.Collect returns (line 339).
GroupCollectReturn ==
    /\ grp.pc = "running"
    /\ grp.next > Len(Collectors)
    /\ grp' = [grp EXCEPT !.pc = "idle", !.n = grp.n + 1]
    /\ UNCHANGED <<rng, procs, cfg, clock, auth, errorCounter, values, ctrValue,
                   gauges, verMetric, mcMetrics, calls, ghost, last>>

\* The payloads answered to concurrent scrapes.
RaceBodies ==
    {[syntax |-> "bad", slaves |-> <<>>]} \cup
    {[syntax |-> "ok", slaves |-> ns] :
        ns \in { <<WireSlave(S1, 1, PortsOne, PortsOne, PortsOne, RackThree)>>,
                 <<WireSlave(S2, 1, PortsOne, PortsOne, PortsOne, RackPath)>>,
                 <<WireSlave(S1, 1, PortsOne, PortsOne, PortsOne, RackThree),
                   WireSlave(S2, 1, PortsOne, PortsOne, PortsOne, RackPath)>> }}

\* The twelve GaugeVecs, filled and collected.
GaugeOrder == MetricNames(<<>>)

\* A Collect call on the masterCollector that has fetched and decoded its
\* state (r), has run the turns of the GaugeVecs and stands before the Set of
\* its first slave in the fill function of the attributes counter.
ScrapeEntered(r, orders) ==
    [pc |-> IF r.panicked THEN "panicked"
            ELSE IF r.target.Slaves = <<>> THEN "range" ELSE "set",
     slaves |-> r.target.Slaves, orders |-> orders, i |-> 1,
     read |-> <<>>, emitted |-> <<>>]

\* masterCollector.Collect is entered by one more goroutine while others
\* are in it (lines 203-204, and the turns of the loop for the GaugeVecs,
\* which lock themselves).
RaceCollectEnter ==
    /\ Len(procs) < MaxProcs
    /\ \E env \in Envs(RaceBodies) :
       \E r \in {fetchAndDecode(auth, clock, env, ZeroState, DecodeState(env.resp.body))} :
       \E orders \in AttributeOrders(r.target.Slaves) :
       \E x \in {RunMetrics([gauges |-> gauges, values |-> values,
                              emitted |-> {}, attrs |-> <<>>],
                             GaugeOrder, r.target.Slaves, orders, cfg.labels)} :
         /\ auth' = r.auth
         /\ clock' = r.clock
         /\ errorCounter' = errorCounter + r.errs
         /\ gauges' = x.gauges
         /\ procs' = Append(procs, ScrapeEntered(r, orders))
    /\ UNCHANGED <<rng, grp, cfg, values, ctrValue, verMetric, mcMetrics, calls,
                   ghost, last>>

\* The sample the fill function makes for slave s (lines 175-191).
AttributeSample(s, keys, labelList) ==
    FillAttributes(<<>>, <<s>>, <<keys>>, labelList)[1]

\* settableCounterVec.Set, first half (line 372): c.values is read, without
\* any lock, as the argument of append.
RaceSetRead ==
    \E p \in DOMAIN procs :
        /\ procs[p].pc = "set"
        /\ procs' = [procs EXCEPT ![p].pc = "append", ![p].read = values]
        /\ UNCHANGED <<rng, grp, cfg, clock, auth, errorCounter, values, ctrValue,
                       gauges, verMetric, mcMetrics, calls, ghost, last>>

\* settableCounterVec.Set, second half: the slice append returns, made of
\* what was read, is stored in c.values; the loop of line 174 moves on.
RaceSetWrite ==
    \E p \in DOMAIN procs :
        /\ procs[p].pc = "append"
        /\ \E sample \in {AttributeSample(procs[p].slaves[procs[p].i],
                                           procs[p].orders[procs[p].i], cfg.labels)} :
             values' = VecSet(procs[p].read, sample.value, sample.labels)
        /\ procs' = [procs EXCEPT ![p].i = @ + 1,
                                  ![p].pc = IF procs[p].i < Len(procs[p].slaves)
                                            THEN "set" ELSE "range"]
        /\ UNCHANGED <<rng, grp, cfg, clock, auth, errorCounter, ctrValue,
                       gauges, verMetric, mcMetrics, calls, ghost, last>>

\* settableCounterVec.Collect, the loop (lines 363-365): c.values is read
\* once, without any lock, and every element of what was read is sent.
RaceCollectRange ==
    \E p \in DOMAIN procs :
        /\ procs[p].pc = "range"
        /\ procs' = [procs EXCEPT ![p].pc = "clear", ![p].emitted = values]
        /\ UNCHANGED <<rng, grp, cfg, clock, auth, errorCounter, values, ctrValue,
                       gauges, verMetric, mcMetrics, calls, ghost, last>>

\* settableCounterVec.Collect, line 367: c.values = nil, and
\* masterCollector.Collect returns.
RaceCollectClear ==
    \E p \in DOMAIN procs :
        /\ procs[p].pc = "clear"
        /\ values' = <<>>
        /\ procs' = [procs EXCEPT ![p].pc = "done"]
        /\ UNCHANGED <<rng, grp, cfg, clock, auth, errorCounter, ctrValue,
                       gauges, verMetric, mcMetrics, calls, ghost, last>>

\* A goroutine about to store a slice header into c.values.
Writing(q) == procs[q].pc \in {"append", "clear"}

\* The three words of the slice header c.values are read while another
\* goroutine stores them (a data race): the reader can get the pointer of
\* one header with the length of the other, and faults on the elements it
\* then touches.
RaceTornRead ==
    \E p \in DOMAIN procs :
        /\ procs[p].pc \in {"set", "range"}
        /\ \E q \in DOMAIN procs : q # p /\ Writing(q)
        /\ procs' = [procs EXCEPT ![p].pc = "panicked"]
        /\ UNCHANGED <<rng, grp, cfg, clock, auth, errorCounter, values, ctrValue,
                       gauges, verMetric, mcMetrics, calls, ghost, last>>

\* Time passes between calls.
Tick ==
    /\ clock < MaxTime
    /\ clock' = clock + 1
    /\ UNCHANGED <<rng, grp, procs, cfg, auth, errorCounter, values, ctrValue, gauges, verMetric,
                   mcMetrics, calls, ghost, last>>

-----------------------------------------------------------------------------
(* The specifications.                                                     *)

\* The client in every configuration, driven by the version collector.
InitClient ==
    /\ cfg \in {[strictMode |-> sm, urlValid |-> uv, loginURLValid |-> lv,
                 keyValid |-> kv, labels |-> <<>>] :
                   sm \in BOOLEAN, uv \in BOOLEAN, lv \in BOOLEAN, kv \in BOOLEAN}
    /\ cfg.strictMode \/ (cfg.loginURLValid /\ cfg.keyValid)
    /\ InitState

NextClient == (Tick /\ cfg.strictMode) \/ VersionCollect

SpecClient == InitClient /\ [][NextClient]_vars

\* The client in strict mode with a signing key that parses.
InitToken ==
    /\ cfg \in {[strictMode |-> TRUE, urlValid |-> TRUE, loginURLValid |-> lv,
                 keyValid |-> TRUE, labels |-> <<>>] : lv \in BOOLEAN}
    /\ InitState

SpecToken == InitToken /\ [][Tick \/ VersionCollect]_vars

\* The master state collector, without strict mode.
InitMaster ==
    /\ cfg \in {[strictMode |-> FALSE, urlValid |-> TRUE, loginURLValid |-> TRUE,
                 keyValid |-> TRUE, labels |-> ls] : ls \in AttributeLabelLists}
    /\ InitState

NextMaster == MasterCollect

SpecMaster == InitMaster /\ [][NextMaster]_vars

\* The members of the standard collector, without strict mode.
InitStandard ==
    /\ cfg = [strictMode |-> FALSE, urlValid |-> TRUE, loginURLValid |-> TRUE,
              keyValid |-> TRUE, labels |-> <<>>]
    /\ InitState

NextStandard == MetricCollect \/ VersionCollect

SpecStandard == InitStandard /\ [][NextStandard]_vars

\* The standard collector: Describe and Collect of the grouped collector
\* over its two members, without strict mode.
InitGrouped == InitStandard

NextGrouped ==
    GroupDescribe \/ GroupCollectStart \/ GroupCollectMember \/ GroupCollectReturn

SpecGrouped == InitGrouped /\ [][NextGrouped]_vars

\* The same with the scheduling of the scraping goroutine: a Collect call
\* that can take its next step (call the next member, return) does so.  No
\* step of the environment is assumed: a request that was issued has
\* resolved within the member's step.
SpecGroupedFair ==
    SpecGrouped /\ WF_vars(GroupCollectMember) /\ WF_vars(GroupCollectReturn)

\* Collect calls of several goroutines on one masterCollector that exports
\* the attribute label "rack", without strict mode.
InitRace ==
    /\ cfg = [strictMode |-> FALSE, urlValid |-> TRUE, loginURLValid |-> TRUE,
              keyValid |-> TRUE, labels |-> <<Rack>>]
    /\ InitState

NextRace ==
    \/ RaceCollectEnter
    \/ RaceSetRead
    \/ RaceSetWrite
    \/ RaceCollectRange
    \/ RaceCollectClear
    \/ RaceTornRead

SpecRace == InitRace /\ [][NextRace]_vars

-----------------------------------------------------------------------------
(* Properties.                                                             *)

CollectOps == {"MasterCollect", "VersionCollect", "MetricCollect"}

\* The label values of a sequence of samples.
LabelsOf(samples) == [i \in 1..Len(samples) |-> samples[i].labels]

\* C1: every Collect of the settableCounterVec emits exactly the samples
\* added by Set since the previous Collect, once each and in Set order, all
\* with the value given to Set, and leaves the buffer empty; with no Set
\* since the previous Collect it emits nothing.
C1_CollectEmitsSetsOnce ==
    last.op = "VecCollect" =>
        /\ LabelsOf(last.attrs) = last.sets
        /\ \A i \in 1..Len(last.attrs) : last.attrs[i].value = 1
        /\ values = <<>>

\* A Collect that drained two different samples.
C1_Witness ==
    /\ last.op = "VecCollect"
    /\ Len(last.sets) >= 2
    /\ last.sets[1] # last.sets[2]
    /\ Len(last.attrs) = Len(last.sets)

\* C2: a cycle whose fetch or decode failed emits no sample from that
\* collector.
C2_FailedCycleEmitsNothing ==
    (last.op \in CollectOps /\ ~last.ok) =>
        (last.emitted = {} /\ last.attrs = <<>>)

\* C3: when extraction functions fail in metricCollector.Collect, the error
\* counter is incremented once per failing function (besides the increment
\* of a failed fetch), the failing metrics are not collected and every other
\* function is run and its metric collected.
C3_ExtractionErrorSkipsOnlyThatMetric ==
    (last.op = "MetricCollect" /\ ~last.panicked) =>
        LET failing == {k \in MetricKeys : Extract(last.target, k).err}
        IN  /\ ~last.blocked
            /\ last.ran = MetricKeys \ failing
            /\ {x.name : x \in last.emitted} = MetricKeys \ failing

\* C4: fetchAndDecode issues at most one GET, returns true exactly for a
\* 2xx response whose body decodes, and increments the error counter on
\* every failure.
C4_FetchFlagAndErrorCount ==
    (last.op = "VersionCollect" /\ ~last.panicked) =>
        /\ last.gets <= 1
        /\ last.ok <=> (/\ last.gets = 1
                        /\ ~last.resp.err
                        /\ last.resp.status = 200
                        /\ ~DecodeVersion(last.resp.body).err)
        /\ ~last.ok => last.errs >= 1

\* A step that is one Collect call in strict mode whose fetchAndDecode
\* reached authToken.
TokenCall == calls' = calls + 1 /\ cfg.strictMode /\ cfg.urlValid

\* The refresh of this step failed in one of its steps: the key did not
\* parse, signing failed, the login POST failed or its answer did not decode.
RefreshFailed ==
    /\ clock > auth.tokenExpire
    /\ \/ ~cfg.keyValid
       \/ last'.sign # "ok"
       \/ last'.posts = 1 /\ (last'.login.err \/ last'.login.syntax = "bad")

\* C5: in strict mode a refresh that fails in any step makes authToken
\* return the empty token, stores no token, and the GET is still issued.
C5_FailedRefreshDegrades ==
    [][(TokenCall /\ RefreshFailed) =>
          /\ last'.sent = <<>>
          /\ auth'.token = auth.token
          /\ last'.gets = 1]_vars

\* The refresh of this step succeeded: the login POST was answered with a
\* body that decodes.
RefreshSucceeded ==
    last'.posts = 1 /\ ~last'.login.err /\ last'.login.syntax = "ok"

\* What C6 says of a successful refresh and of the calls up to the expiry:
\* the token stored is "token=<server token>", the expiry stored is one
\* hour after the time read when the assertion was minted, and a call at a
\* time not after the stored expiry returns the stored token, issues no
\* login request and leaves the token cache alone.
C6_StoreAndReuse ==
    /\ RefreshSucceeded =>
          /\ auth'.token = FormatToken(last'.login.token)
          /\ auth'.tokenExpire = clock' + Hour
    /\ clock <= auth.tokenExpire =>
          /\ last'.posts = 0
          /\ last'.sent = auth.token
          /\ auth' = auth

\* C6 as stated: a login POST is issued in a call if and only if the current
\* time is strictly greater than the stored expiry (and C6_StoreAndReuse).
C6_LoginIffExpired ==
    [][TokenCall =>
          /\ last'.posts = 1 <=> clock > auth.tokenExpire
          /\ C6_StoreAndReuse]_vars

\* C6 amended: a login POST is issued only if the current time is strictly
\* greater than the stored expiry, and then it is issued unless the login
\* request cannot be constructed or signing panicked (and C6_StoreAndReuse).
C6_LoginOnlyIfExpired ==
    [][TokenCall =>
          /\ last'.posts = 1 => clock > auth.tokenExpire
          /\ (clock > auth.tokenExpire /\ cfg.loginURLValid /\ ~last'.panicked)
                => last'.posts = 1
          /\ C6_StoreAndReuse]_vars

\* A call at the very second of the stored expiry that sent the token of an
\* earlier successful refresh without a login request.
C6_Witness ==
    /\ last.op = "VersionCollect"
    /\ cfg.strictMode
    /\ calls = 2
    /\ clock = auth.tokenExpire
    /\ last.posts = 0
    /\ last.gets = 1
    /\ last.sent = FormatToken("t1")
    /\ auth.token = FormatToken("t1")

\* C7: Collect of the settableCounter emits the value of the last Set since
\* the previous Collect, once, and clears it; with no Set since the previous
\* Collect, or before any Set, it emits no sample.
C7_CounterDrains ==
    last.op = "CounterCollect" =>
        IF last.sets = <<>> THEN last.attrs = <<>>
        ELSE /\ last.attrs = <<CounterSet(last.sets[Len(last.sets)])>>
             /\ ctrValue = NilMetric

\* The attribute keys of slave s whose sanitized form is the label name.
KeysFor(s, name) == {k \in DOMAIN s.Attributes : normaliseLabel(k) = name}

\* C8: a scrape emits one attribute sample per slave of the decoded payload;
\* each carries one value per label name of its descriptor, in the
\* descriptor's order: the pid first, nothing for hostname, port and id, then
\* per configured label the text of an attribute whose sanitized key is that
\* label, and the empty string when the slave has no such attribute.
C8_AttributeSamplePerSlave ==
    (last.op = "MasterCollect" /\ ~last.panicked /\ Len(cfg.labels) > 0) =>
        LET desc == slaveAttributesLabelsExport(cfg.labels)
            slaves == last.target.Slaves
        IN  /\ Len(last.attrs) = Len(slaves)
            /\ \A i \in 1..Len(slaves) :
                 LET lvs == last.attrs[i].labels
                 IN  /\ Len(lvs) = Len(desc)
                     /\ lvs[1] = slaves[i].PID
                     /\ \A j \in 2..Len(Labels) : lvs[j] = <<>>
                     /\ \A j \in (Len(Labels) + 1)..Len(desc) :
                          /\ KeysFor(slaves[i], desc[j]) = {} => lvs[j] = <<>>
                          /\ lvs[j] \in {<<>>} \cup
                               {attributeString(slaves[i].Attributes[k]).val :
                                    k \in KeysFor(slaves[i], desc[j])}

\* A scrape of two slaves with two configured labels, where the first slave
\* has a rack attribute and no a_b attribute.
C8_Witness ==
    /\ last.op = "MasterCollect"
    /\ Len(cfg.labels) = 2
    /\ Len(last.attrs) = 2
    /\ last.attrs[1].labels[5] = <<"3">>
    /\ last.attrs[1].labels[6] = <<>>

\* The set of the samples a scrape emitted.
SampleSet(l) == l.emitted \cup {l.attrs[i] : i \in 1..Len(l.attrs)}

\* C9: two consecutive scrapes of the master collector that got the same
\* answer from upstream emit the same set of samples.
C9_SamePayloadSameSamples ==
    [][(/\ last.op = "MasterCollect"
        /\ last'.op = "MasterCollect"
        /\ calls' = calls + 1
        /\ last.gets = 1
        /\ last'.gets = 1
        /\ last'.resp = last.resp) => SampleSet(last') = SampleSet(last)]_vars

\* The value of member key of a JSON object on the wire.
Member(members, key) ==
    LET i == CHOOSE k \in 1..Len(members) : members[k][1] = key
    IN  members[i][2]

\* The gauge names of the three resource vectors, by wire key.
VectorGauges ==
    [resources |-> [cpus |-> "cpus", mem |-> "mem_bytes",
                    disk |-> "disk_bytes", ports |-> "ports"],
     used_resources |-> [cpus |-> "cpus_used", mem |-> "mem_used_bytes",
                         disk |-> "disk_used_bytes", ports |-> "ports_used"],
     unreserved_resources |->
         [cpus |-> "cpus_unreserved", mem |-> "mem_unreserved_bytes",
          disk |-> "disk_unreserved_bytes", ports |-> "ports_unreserved"]]

\* The label values of a slave on the wire.
WireLabelValues(node) ==
    <<Member(node, "pid"), Member(node, "hostname"),
      FormatUint(Member(node, "port")), Member(node, "id")>>

\* C10: whatever ports texts of a payload are malformed, the scrape exports,
\* for every slave of the payload (the last one of each identity), the cpu,
\* mem and disk values of each of its three resource vectors, and the port
\* count of each vector whose ports text is well formed.
C10_MalformedPortsLoseOnlyThatSet ==
    (last.op = "MasterCollect" /\ last.gets = 1 /\ ~last.resp.err
       /\ last.resp.body.syntax = "ok") =>
        LET nodes == last.resp.body.slaves
        IN  \A i \in 1..Len(nodes) :
              (\A j \in (i + 1)..Len(nodes) :
                   WireLabelValues(nodes[j]) # WireLabelValues(nodes[i])) =>
              \A vec \in DOMAIN VectorGauges :
                LET res == Member(nodes[i], vec)
                    lv == WireLabelValues(nodes[i])
                    ports == UnmarshalJSON(<<>>, Member(res, "ports"))
                    Has(name, v) ==
                        [name |-> name, labels |-> lv, value |-> v]
                            \in last.emitted
                IN  /\ Has(VectorGauges[vec].cpus, Member(res, "cpus"))
                    /\ Has(VectorGauges[vec].mem, Member(res, "mem") * KiB)
                    /\ Has(VectorGauges[vec].disk, Member(res, "disk") * KiB)
                    /\ ~ports.err =>
                          Has(VectorGauges[vec].ports, Float64(size(ports.rs)))

\* a <= b for uint64 values.
LeU64(a, b) ==
    \/ a = b
    \/ \E i \in 1..4 : a[i] < b[i] /\ \A j \in (i + 1)..4 : a[j] = b[j]

\* The intervals of a source list all have lo <= hi.
Ascending(src) == \A i \in 1..Len(src) : LeU64(src[i][1].val, src[i][2].val)

\* The sum over the intervals of (hi - lo + 1) as a natural number: val is
\* the sum modulo 2^64 and over is TRUE when the sum is 2^64 or more.
RECURSIVE IntervalSum(_)
IntervalSum(src) ==
    IF src = <<>> THEN [val |-> ZeroU64, over |-> FALSE]
    ELSE LET p == IntervalSum(SubSeq(src, 1, Len(src) - 1))
             i == src[Len(src)]
             one == AddU64(SubU64(i[2].val, i[1].val), OneU64)
             t == AddU64(p.val, one.val)
         IN  [val |-> t.val, over |-> p.over \/ one.carry # 0 \/ t.carry # 0]

\* The numbers of a source list are all below 2^16.
Small(src) ==
    \A i \in 1..Len(src) : \A k \in 1..2 : \A l \in 2..4 : src[i][k].val[l] = 0

\* The sum over the intervals of (hi - lo + 1) for such a list, in the
\* integers.
RECURSIVE PlainSum(_)
PlainSum(src) ==
    IF src = <<>> THEN 0
    ELSE PlainSum(Tail(src)) + (src[1][2].val[1] - src[1][1].val[1] + 1)

\* size() was called on a value decoded once, from the empty set.
SizedFirstDecode == rng.op = "size" /\ rng.n = 1 /\ rng.before = <<>>

\* C11 (as stated): a well-formed text of intervals with lo <= hi, decoded
\* into an empty range set, has as size() the sum over its intervals of
\* (hi - lo + 1), overlapping intervals counted twice; an empty or absent
\* field decodes to the empty set with size 0.
C11_SizeIsIntervalSum ==
    /\ (SizedFirstDecode /\ rng.kind = "intervals" /\ Ascending(rng.src)) =>
          /\ ~rng.err
          /\ Len(rng.rs) = Len(rng.src)
          /\ ~IntervalSum(rng.src).over
          /\ rng.sz = IntervalSum(rng.src).val
    /\ (SizedFirstDecode /\ rng.kind = "empty") =>
          rng.rs = <<>> /\ ~rng.err /\ rng.sz = ZeroU64
    /\ size(ZeroResources.Ports) = ZeroU64

\* C11 (amended): the same, the sum taken modulo 2^64: it is the sum itself
\* whenever the sum is below 2^64.
C11_SizeIsIntervalSumMod64 ==
    /\ (SizedFirstDecode /\ rng.kind = "intervals" /\ Ascending(rng.src)) =>
          /\ ~rng.err
          /\ Len(rng.rs) = Len(rng.src)
          /\ rng.sz = IntervalSum(rng.src).val
          /\ Small(rng.src) => Float64(rng.sz) = PlainSum(rng.src)
    /\ (SizedFirstDecode /\ rng.kind = "empty") =>
          rng.rs = <<>> /\ ~rng.err /\ rng.sz = ZeroU64
    /\ size(ZeroResources.Ports) = ZeroU64

\* Two overlapping intervals 0-5 and 3-5 were decoded and sized: 6 + 3.
C11_Witness ==
    /\ SizedFirstDecode /\ rng.kind = "intervals" /\ Ascending(rng.src)
    /\ Len(rng.src) = 2
    /\ rng.rs = << <<ZeroU64, <<5, 0, 0, 0>> >>, << <<3, 0, 0, 0>>, <<5, 0, 0, 0>> >> >>
    /\ rng.sz = <<9, 0, 0, 0>>

\* The bitwise complement of a uint64: 2^64 - 1 - u.
ComplementU64(u) == [k \in 1..4 |-> Base - 1 - u[k]]

\* C12: a reversed interval (lo > hi) is decoded without error, and size()
\* returns hi - lo + 1 in 64-bit unsigned arithmetic: the wrapped value
\* 2^64 - (lo - hi - 1), neither negative nor clamped nor rejected.
C12_ReversedIntervalWraps ==
    (rng.n = 1 /\ rng.before = <<>> /\ rng.kind = "intervals") =>
        /\ ~rng.err
        /\ rng.rs = [i \in 1..Len(rng.src) |->
                        <<rng.src[i][1].val, rng.src[i][2].val>>]
        /\ (rng.op = "size" /\ Len(rng.src) = 1 /\ ~Ascending(rng.src)) =>
              LET lo == rng.src[1][1].val
                  hi == rng.src[1][2].val
              IN  /\ AddU64(rng.sz, lo).val = AddU64(hi, OneU64).val
                  /\ Small(rng.src) =>
                        rng.sz = IF lo[1] - hi[1] = 1 THEN ZeroU64
                                 ELSE ComplementU64(U64(lo[1] - hi[1] - 2))

\* "5-3" was decoded and sized: 2^64 - 1.
C12_Witness ==
    /\ SizedFirstDecode
    /\ rng.data = <<Quote, "[", "5", "-", "3", "]", Quote>>
    /\ rng.rs = << <<U64(5), U64(3)>> >>
    /\ rng.sz = MaxU64

\* The last operation was a scrape of /state that fetchAndDecode reported as
\* successful.
ScrapedState == last.op = "MasterCollect" /\ last.ok

\* The twelve gauges hold, and the scrape emitted, the fields of the node on
\* the wire under the node's four label values: cpus as they are, mem and
\* disk times 1024, ports as the size of the range set.
NodeExported(node) ==
    \A vec \in DOMAIN VectorGauges :
        LET res == Member(node, vec)
            lv == WireLabelValues(node)
            Holds(name, v) ==
                /\ [name |-> name, labels |-> lv, value |-> v] \in last.emitted
                /\ lv \in DOMAIN gauges[name] /\ gauges[name][lv] = v
        IN  /\ Holds(VectorGauges[vec].cpus, Member(res, "cpus"))
            /\ Holds(VectorGauges[vec].mem, 1024 * Member(res, "mem"))
            /\ Holds(VectorGauges[vec].disk, 1024 * Member(res, "disk"))
            /\ Holds(VectorGauges[vec].ports,
                     Float64(size(UnmarshalJSON(<<>>, Member(res, "ports")).rs)))

\* C13 (as stated): after a successful scrape, for every node of the payload
\* each of the twelve slave gauges with the node's labels holds the value of
\* the node's field, in whatever order the fill functions ran.
C13_GaugesHoldNodeFields ==
    ScrapedState =>
        \A i \in 1..Len(last.resp.body.slaves) :
            NodeExported(last.resp.body.slaves[i])

\* C13 (amended): the same for every node that no later node of the payload
\* shares its four label values with; of the nodes with the same label
\* values the last one gives the values.
C13_GaugesHoldLastNodeFields ==
    ScrapedState =>
        LET nodes == last.resp.body.slaves
        IN  \A i \in 1..Len(nodes) :
              (\A j \in (i + 1)..Len(nodes) :
                   WireLabelValues(nodes[j]) # WireLabelValues(nodes[i])) =>
              NodeExported(nodes[i])

\* A successful scrape of two nodes with different labels ran the fill
\* functions in the reverse of the order of the source.
C13_Witness ==
    /\ ScrapedState
    /\ Len(last.resp.body.slaves) = 2
    /\ WireLabelValues(last.resp.body.slaves[1])
          # WireLabelValues(last.resp.body.slaves[2])
    /\ last.order = Reverse(MetricNames(cfg.labels))
    /\ Len(cfg.labels) > 0
    /\ \E x \in last.emitted : x.name = "mem_bytes" /\ x.value = 3072

\* C14: in every cycle the version collector emits nothing when the fetch of
\* /version fails, and when it succeeds it emits one series only, of value
\* 1, labelled by the build metadata of that cycle's response.
C14_VersionSingleSeries ==
    (last.op = "VersionCollect" /\ ~last.panicked) =>
        IF last.ok
        THEN last.emitted =
               {[name |-> "version",
                 labels |-> VersionLabelValues(DecodeVersion(last.resp.body).val),
                 value |-> 1]}
        ELSE last.emitted = {}

\* A Collect call on the grouped collector that has come to rest: it has
\* returned, or it will take no further step.
GroupCollectAtRest ==
    \/ grp.pc \in {"blocked", "panicked"}
    \/ grp.pc = "idle" /\ grp.n > 0

\* C15: each Describe and each Collect call on the grouped collector invokes
\* every member exactly once, in the order of construction, and a member
\* whose fetch, decode or extraction fails does not prevent the members after
\* it from being collected in the same scrape.
C15_GroupInvokesEveryMember ==
    /\ grp.described \in {<<>>, Collectors}
    /\ grp.pc = "running" => grp.invoked = SubSeq(Collectors, 1, grp.next - 1)
    /\ GroupCollectAtRest => grp.invoked = Collectors

\* C16: network I/O is the only point at which a scrape can block: with
\* every request resolved and every sample received, every Collect call that
\* was entered eventually returns (or ends in a panic), for every payload and
\* every outcome of the extraction functions.
C16_CollectReturns ==
    (grp.pc = "running") ~> (grp.pc \in {"idle", "panicked"})

\* The attribute samples of the nodes of a scrape's own decoded payload.
OwnSamples(p) == FillAttributes(<<>>, procs[p].slaves, procs[p].orders, cfg.labels)

\* C17: when scrape calls on the same masterCollector interleave, no scrape
\* changes the samples another emits: a scrape that has returned has emitted
\* exactly one attribute sample per node of its own decoded payload.
C17_ScrapesEmitOwnSamples ==
    \A p \in DOMAIN procs :
        procs[p].pc = "done" => procs[p].emitted = OwnSamples(p)

\* The values, stripped of their wrapping quotes, of the attributes of slave
\* s whose sanitized key is the label name and whose stripped value is made
\* of characters of chars only.
KeptValues(s, name, chars) ==
    {Trim(s.Attributes[k], {Quote}) :
        k \in {x \in KeysFor(s, name) :
                  \A i \in 1..Len(Trim(s.Attributes[x], {Quote})) :
                      Trim(s.Attributes[x], {Quote})[i] \in chars}}

\* In the attribute samples of a scrape, every configured label of every
\* node carries a value kept for it under chars, or is empty when none is
\* kept; every node has its sample, and the sample has no label beyond the
\* four fixed ones and the configured ones.
AttributeLabelsFrom(chars) ==
    LET desc == slaveAttributesLabelsExport(cfg.labels)
        slaves == last.target.Slaves
    IN  /\ Len(last.attrs) = Len(slaves)
        /\ \A i \in 1..Len(slaves) :
             /\ Len(last.attrs[i].labels) = Len(Labels) + Len(cfg.labels)
             /\ \A j \in (Len(Labels) + 1)..Len(desc) :
                  \E kept \in {KeptValues(slaves[i], desc[j], chars)} :
                      IF kept = {} THEN last.attrs[i].labels[j] = <<>>
                      ELSE last.attrs[i].labels[j] \in kept

AttributesScraped ==
    last.op = "MasterCollect" /\ ~last.panicked /\ Len(cfg.labels) > 0

\* C18 as stated: a configured attribute label is non-empty only if the node
\* has an attribute whose sanitized key is the sanitized label and whose
\* value, stripped of its wrapping quotes, consists of word characters, '/'
\* and '.' only; any other value leaves the label empty, the sample is still
\* emitted, and attributes outside the allowlist never appear as labels.
C18_AttributeLabelsWordSlashDot ==
    AttributesScraped => AttributeLabelsFrom(LabelChar \cup {"/", "."})

\* C18 with the character set of the code: word characters, '/', '.' and
\* '-'.
C18_AttributeLabelsText ==
    AttributesScraped => AttributeLabelsFrom(LabelChar \cup {"/", ".", "-"})

\* A scrape with the allowlist <<rack>> of a node with the attributes
\* rack = 3 and zone = x and of a node whose rack value holds a space: the
\* first sample carries rack = 3 and nothing of zone, the second an empty
\* rack.
C18_Witness ==
    /\ AttributesScraped
    /\ cfg.labels = <<Rack>>
    /\ Len(last.attrs) = 2
    /\ last.target.Slaves[1].Attributes = RackThree
    /\ last.attrs[1].labels = <<S1, <<>>, <<>>, <<>>, <<"3">> >>
    /\ last.target.Slaves[2].Attributes = RackSpace
    /\ last.attrs[2].labels[5] = <<>>

\* C19: after any sequence of scrapes ending in a successful one, the slave
\* gauge series emitted by that last scrape are exactly those of the nodes
\* of its payload: a node of an earlier payload that is absent from the
\* latest one is no longer emitted.
C19_OnlyPresentNodesEmitted ==
    ScrapedState =>
        {x.labels : x \in last.emitted} =
            {WireLabelValues(last.resp.body.slaves[i]) :
                 i \in 1..Len(last.resp.body.slaves)}

\* The call before this step entered the token refresh and the refresh
\* failed: signing failed, or the login request was not made, or it was not
\* answered with a body that decodes.
PreviousRefreshFailed ==
    /\ last.op = "VersionCollect"
    /\ last.sign # Nil
    /\ \/ last.sign # "ok"
       \/ last.posts = 0
       \/ last.login.err
       \/ last.login.syntax = "bad"

\* C20: a failed token refresh leaves the stored token and the stored expiry
\* as they were before the attempt, so the next authToken call (made, as
\* time does not go back, while the clock is still past the old expiry)
\* attempts the refresh again instead of returning the cached token.
C20_FailedRefreshLeavesAuthState ==
    [][TokenCall =>
          /\ RefreshFailed => auth' = auth
          /\ PreviousRefreshFailed => last'.sign # Nil]_vars

=============================================================================
